---- MODULE Spec2Model ----
(***************************************************************************)
(* sql-to-rest: the lowering of one SQL statement to a PostgREST request.  *)
(*                                                                         *)
(*   processSql      parse result -> Statement IR      (processor)         *)
(*   renderHttp      Statement IR -> HttpRequest       (HTTP renderer)     *)
(*   renderFilterRoot  the AND-flattening of a filter at the query root    *)
(*                                                                         *)
(* Text is modelled as a sequence of symbols of an abstract alphabet: a    *)
(* symbol is either a delimiter (".", ",", "/", "?", "=", "&", "(", ")",   *)
(* ":") or an undivided run of other characters ("books", "eq", "1").      *)
(* Concatenation, prefix, join and split are then the string operations.   *)
(* An optional value (a field that may be undefined) is a sequence of      *)
(* length 0 or 1.                                                          *)
(***************************************************************************)
EXTENDS Integers, Sequences, FiniteSets, TLC

VARIABLES pc, stmts, ir, err, req, filter, params

vars == <<pc, stmts, ir, err, req, filter, params>>

\* ------------------------------------------------------------------ bounds

MaxFilterNodes == 4

MaxRenderNodes == 3

MaxTargets == 2

MaxColumns == 2

MaxRows == 2

MaxReturning == 2

MaxWhereNodes == 4

MaxStmts == 2

\* ------------------------------------------------------------------ values

undefined == <<>>

Some(v) == <<v>>

IsDefined(o) == o # undefined

Get(o) == o[1]

\* A one-symbol text.
S(sym) == <<sym>>

Range(s) == {s[i] : i \in 1..Len(s)}

\* The sequences over `set` of length `from` to `to`.
SeqsOf(set, from, to) == UNION {[1..k -> set] : k \in from..to}

Optional(set) == {undefined} \cup {Some(v) : v \in set}

RECURSIVE Flatten(_)
\* The concatenation of a sequence of sequences.
Flatten(ss) == IF ss = <<>> THEN <<>> ELSE Head(ss) \o Flatten(Tail(ss))

RECURSIVE join(_, _)
\* Array.prototype.join: the texts of `parts` with `sep` between them.
join(parts, sep) ==
  IF parts = <<>> THEN <<>>
  ELSE IF Len(parts) = 1 THEN parts[1]
  ELSE parts[1] \o sep \o join(Tail(parts), sep)

RECURSIVE split(_, _)
\* String.prototype.split on a one-symbol separator: always at least one part.
split(text, sep) ==
  IF \E i \in 1..Len(text) : text[i] = sep
  THEN LET at == CHOOSE i \in 1..Len(text) :
                   text[i] = sep /\ \A j \in 1..(i - 1) : text[j] # sep
       IN <<SubSeq(text, 1, at - 1)>> \o split(SubSeq(text, at + 1, Len(text)), sep)
  ELSE <<text>>

\* Array.prototype.pop: the last item.
pop(items) == items[Len(items)]

startsWith(text, prefix) ==
  /\ Len(prefix) <= Len(text)
  /\ SubSeq(text, 1, Len(prefix)) = prefix

\* ------------------------------------------------------- URLSearchParams

\* URLSearchParams is an ordered list of (key, value) pairs.
NewParams == <<>>

Pair(k, v) == [key |-> k, value |-> v]

\* URLSearchParams.append: a new pair at the end, whatever keys exist.
paramsAppend(ps, k, v) == Append(ps, Pair(k, v))

RECURSIVE dropKey(_, _)
dropKey(ps, k) ==
  IF ps = <<>> THEN <<>>
  ELSE IF Head(ps).key = k THEN dropKey(Tail(ps), k)
  ELSE <<Head(ps)>> \o dropKey(Tail(ps), k)

\* URLSearchParams.set: the first pair with this key takes the value and every
\* other pair with the key is removed; with no such pair, the pair is appended.
paramsSet(ps, k, v) ==
  IF \E i \in 1..Len(ps) : ps[i].key = k
  THEN LET first == CHOOSE i \in 1..Len(ps) :
                      /\ ps[i].key = k
                      /\ \A j \in 1..(i - 1) : ps[j].key # k
       IN SubSeq(ps, 1, first - 1) \o <<Pair(k, v)>>
            \o dropKey(SubSeq(ps, first + 1, Len(ps)), k)
  ELSE Append(ps, Pair(k, v))

\* ---------------------------------------------------------------- filters

ColumnFilter(column, operator, negate, value) ==
  [type |-> "column", column |-> column, operator |-> operator,
   negate |-> negate, value |-> value]

LogicalFilter(operator, negate, values) ==
  [type |-> "logical", operator |-> operator, negate |-> negate,
   values |-> values]

\* The column predicates of the filter trees: a basic and a non-basic operator.
LeafFilters ==
  {ColumnFilter(S("id"), "eq", n, S("1")) : n \in BOOLEAN}
    \cup {ColumnFilter(S("title"), "like", n, S("x")) : n \in BOOLEAN}

RECURSIVE TreesOfSize(_, _), ForestsOfSize(_, _)
\* The filter trees over `leaves` with exactly n nodes; a logical node has at
\* least one child.
TreesOfSize(leaves, n) ==
  IF n = 1 THEN leaves
  ELSE {LogicalFilter(op, neg, vs) :
          op \in {"and", "or"}, neg \in BOOLEAN, vs \in ForestsOfSize(leaves, n - 1)}

\* The non-empty sequences of trees with n nodes in total.
ForestsOfSize(leaves, n) ==
  UNION {{<<t>> \o f : t \in TreesOfSize(leaves, k),
                       f \in (IF k = n THEN {<<>>} ELSE ForestsOfSize(leaves, n - k))}
         : k \in 1..n}

FilterTrees(leaves, maxNodes) == UNION {TreesOfSize(leaves, n) : n \in 1..maxNodes}

\* ------------------------------------------------- util.js: renderFilter

notPrefix(negate) == IF negate THEN <<"not", ".">> ELSE <<>>

RECURSIVE renderFilterNested(_)
\* A filter inside a logical filter: `column.[not.]op.value` for a column
\* filter and `[not.]and(child,child)` for a logical one.
renderFilterNested(f) ==
  IF f.type = "column"
  THEN f.column \o S(".") \o notPrefix(f.negate) \o S(f.operator) \o S(".") \o f.value
  ELSE notPrefix(f.negate) \o S(f.operator) \o S("(")
         \o join([i \in 1..Len(f.values) |-> renderFilterNested(f.values[i])], S(","))
         \o S(")")

\* The (key, value) pair of a filter at the top level of the query string.
renderFilter(f) ==
  IF f.type = "column"
  THEN <<f.column, notPrefix(f.negate) \o S(f.operator) \o S(".") \o f.value>>
  ELSE <<S(f.operator),
         notPrefix(f.negate) \o S("(")
           \o join([i \in 1..Len(f.values) |-> renderFilterNested(f.values[i])], S(","))
           \o S(")")>>

\* --------------------------------------------- http.ts: renderFilterRoot

\* The test of the root routine: a logical `and` that is not negated.
isFlattened(f) == f.type = "logical" /\ f.operator = "and" /\ ~f.negate

RECURSIVE rootFiltersIgnoringNegate(_)
\* A root routine that forgets the `!filter.negate` test.
rootFiltersIgnoringNegate(f) ==
  IF f.type = "logical" /\ f.operator = "and"
  THEN Flatten([i \in 1..Len(f.values) |-> rootFiltersIgnoringNegate(f.values[i])])
  ELSE <<f>>

RECURSIVE rootFiltersAnyOperator(_)
\* A root routine that forgets the `filter.operator === 'and'` test.
rootFiltersAnyOperator(f) ==
  IF f.type = "logical" /\ ~f.negate
  THEN Flatten([i \in 1..Len(f.values) |-> rootFiltersAnyOperator(f.values[i])])
  ELSE <<f>>

RECURSIVE rootFilters(_)
\* The filters the root routine renders, in the order it reaches them: it
\* descends into the children of a non-negated `and` and renders anything else.
rootFilters(f) ==
  IF isFlattened(f)
  THEN Flatten([i \in 1..Len(f.values) |-> rootFilters(f.values[i])])
  ELSE <<f>>

RECURSIVE appendFilters(_, _)
appendFilters(ps, fs) ==
  IF fs = <<>> THEN ps
  ELSE appendFilters(paramsAppend(ps, renderFilter(Head(fs))[1], renderFilter(Head(fs))[2]),
                     Tail(fs))

\* renderFilterRoot(params, filter): every filter it reaches is rendered and
\* appended to params.
renderFilterRoot(ps, f) == appendFilters(ps, rootFilters(f))

\* ------------------------------------------------------------ JS values

JsNumber(n) == [js |-> "number", num |-> n]

JsString(text) == [js |-> "string", str |-> text]

JsBoolean(b) == [js |-> "boolean", bool |-> b]

JsNull == [js |-> "null"]

\* What reading past the end of an array gives.
JsUndefined == [js |-> "undefined"]

\* An object is its own-property map; an array is its list of items.
JsObject(fields) == [js |-> "object", fields |-> fields]

JsArray(items) == [js |-> "array", items |-> items]

EmptyFields == [k \in {} |-> JsUndefined]

\* obj[key] = value: a new property, or the new value of an existing one.
objSet(fields, key, value) ==
  [k \in (DOMAIN fields) \cup {key} |-> IF k = key THEN value ELSE fields[k]]

\* row[index] with a zero-based index.
arrayAt(items, index) ==
  IF index + 1 \in 1..Len(items) THEN items[index + 1] ELSE JsUndefined

\* Number.prototype.toString of a non-negative integer.
numberToString(n) == S(ToString(n))

\* --------------------------------------- util.js: targets and URI encoding

ColumnTarget(column, alias, cast) ==
  [type |-> "column-target", column |-> column, alias |-> alias, cast |-> cast]

AggregateTarget(functionName, column, alias) ==
  [type |-> "aggregate-target", functionName |-> functionName,
   column |-> column, alias |-> alias]

\* One target: `[alias:]column[::cast]`, an aggregate as `[alias:]column.fn()`.
renderTarget(t) ==
  (IF IsDefined(t.alias) THEN Get(t.alias) \o S(":") ELSE <<>>)
    \o t.column
    \o (IF t.type = "aggregate-target"
        THEN S(".") \o S(t.functionName) \o <<"(", ")">>
        ELSE IF IsDefined(t.cast) THEN <<":", ":">> \o Get(t.cast) ELSE <<>>)

renderTargets(targets) ==
  join([i \in 1..Len(targets) |-> renderTarget(targets[i])], S(","))

\* The symbols percent-encoding rewrites; the syntax of a filter value
\* (comma, parentheses, dot, colon) is left as it is.
uriEncodeSymbol(sym) ==
  IF sym = " " THEN "%20" ELSE IF sym = "&" THEN "%26" ELSE sym

uriEncode(text) == [i \in 1..Len(text) |-> uriEncodeSymbol(text[i])]

\* `key=value` of every pair, joined by `&`.
uriEncodeParams(ps) ==
  join([i \in 1..Len(ps) |-> uriEncode(ps[i].key) \o S("=") \o uriEncode(ps[i].value)],
       S("&"))

\* ------------------------------------------------------ http.ts: renderHttp

\* The fullPath getter, params.size not being available in older runtimes.
fullPathOf(path, ps) ==
  IF Len(ps) > 0 THEN path \o S("?") \o uriEncodeParams(ps) ELSE path

\* `/${name}`
pathOf(name) == S("/") \o name

\* The `select` of formatSelect: left out for a lone `*` column target.
selectParams(ps, targets) ==
  IF Len(targets) > 0
  THEN IF \/ targets[1].type # "column-target"
          \/ targets[1].column # S("*")
          \/ Len(targets) # 1
       THEN paramsSet(ps, S("select"), renderTargets(targets))
       ELSE ps
  ELSE ps

\* One sort: column[.direction][.nulls<nulls>].
sortValue(sort) ==
  sort.column
    \o (IF IsDefined(sort.direction) THEN S(".") \o S(Get(sort.direction)) ELSE <<>>)
    \o (IF IsDefined(sort.nulls) THEN S(".") \o S("nulls") \o S(Get(sort.nulls)) ELSE <<>>)

orderParams(ps, sorts) ==
  IF IsDefined(sorts)
  THEN LET columns == [i \in 1..Len(Get(sorts)) |-> sortValue(Get(sorts)[i])]
       IN IF Len(columns) > 0 THEN paramsSet(ps, S("order"), join(columns, S(","))) ELSE ps
  ELSE ps

limitParams(ps, limit) ==
  IF IsDefined(limit)
  THEN LET withCount ==
             IF IsDefined(Get(limit).count)
             THEN paramsSet(ps, S("limit"), numberToString(Get(Get(limit).count)))
             ELSE ps
       IN IF IsDefined(Get(limit).offset)
          THEN paramsSet(withCount, S("offset"), numberToString(Get(Get(limit).offset)))
          ELSE withCount
  ELSE ps

filterParams(ps, f) == IF IsDefined(f) THEN renderFilterRoot(ps, Get(f)) ELSE ps

\* The `select` of a RETURNING list.
returningParams(ps, returning) ==
  IF IsDefined(returning) /\ Len(Get(returning)) > 0
  THEN paramsSet(ps, S("select"), join(Get(returning), S(",")))
  ELSE ps

\* A request whose fullPath always carries the `?`.
RequestAlwaysQuery(method, path, ps, body) ==
  [method |-> method, path |-> path, params |-> ps, body |-> body,
   fullPath |-> path \o S("?") \o uriEncodeParams(ps)]

\* The HttpRequest record a formatter returns.
Request(method, path, ps, body) ==
  [method |-> method, path |-> path, params |-> ps, body |-> body,
   fullPath |-> fullPathOf(path, ps)]

formatSelect(select) ==
  LET ps == limitParams(
              orderParams(
                filterParams(selectParams(NewParams, select.targets), select.filter),
                select.sorts),
              select.limit)
  IN Request("GET", pathOf(select.from), ps, undefined)

RECURSIVE rowObject(_, _, _)
\* columns.forEach((col, index) => obj[col] = row[index]), over the first
\* `count` columns.
rowObject(columns, row, count) ==
  IF count = 0 THEN EmptyFields
  ELSE objSet(rowObject(columns, row, count - 1), columns[count], arrayAt(row, count - 1))

\* values.map(row => obj)
insertBody(columns, values) ==
  [r \in 1..Len(values) |-> JsObject(rowObject(columns, values[r], Len(columns)))]

\* A formatInsert whose body is the array whatever the number of rows.
formatInsertAlwaysArray(insert) ==
  LET body == insertBody(insert.columns, insert.values)
      ps == returningParams(NewParams, insert.returning)
  IN Request("POST", pathOf(insert.into), ps, Some(JsArray(body)))

formatInsert(insert) ==
  LET body == insertBody(insert.columns, insert.values)
      ps == returningParams(NewParams, insert.returning)
  IN Request("POST", pathOf(insert.into), ps,
             Some(IF Len(body) = 1 THEN body[1] ELSE JsArray(body)))

formatUpdate(update) ==
  LET ps == filterParams(returningParams(NewParams, update.returning), update.filter)
  IN Request("PATCH", pathOf(update.table), ps, Some(update.set))

formatDelete(deleteStmt) ==
  LET ps == filterParams(returningParams(NewParams, deleteStmt.returning), deleteStmt.filter)
  IN Request("DELETE", pathOf(deleteStmt.from), ps, undefined)

renderHttp(processed) ==
  CASE processed.type = "select" -> formatSelect(processed)
    [] processed.type = "insert" -> formatInsert(processed)
    [] processed.type = "update" -> formatUpdate(processed)
    [] processed.type = "delete" -> formatDelete(processed)

\* ----------------------------------------------------- types.ts: the IR

Select(from, targets, f, sorts, limit) ==
  [type |-> "select", from |-> from, targets |-> targets, filter |-> f,
   sorts |-> sorts, limit |-> limit]

Insert(into, columns, values, returning) ==
  [type |-> "insert", into |-> into, columns |-> columns, values |-> values,
   returning |-> returning]

Update(table, set, f, returning) ==
  [type |-> "update", table |-> table, set |-> set, filter |-> f,
   returning |-> returning]

Delete(from, f, returning) ==
  [type |-> "delete", from |-> from, filter |-> f, returning |-> returning]

Sort(column, direction, nulls) ==
  [column |-> column, direction |-> direction, nulls |-> nulls]

Limit(count, offset) == [count |-> count, offset |-> offset]

\* ------------------------------------------------------ errors and results

UnsupportedError(message) == [name |-> "UnsupportedError", message |-> message]

UnimplementedError(message) == [name |-> "UnimplementedError", message |-> message]

\* A call either returns a value or throws an error.
Return(value) == [ok |-> TRUE, value |-> value]

Throw(error) == [ok |-> FALSE, error |-> error]

\* ------------------------------------------------ processor: shared pieces

\* The value an A_Const contributes: by the first of sval, ival, fval, boolval
\* and Null that the node carries; a tag whose inner value is missing is passed
\* over.
constValue(const, message) ==
  IF const.tag = "sval" /\ IsDefined(const.inner) THEN Return(Get(const.inner))
  ELSE IF const.tag = "ival" /\ IsDefined(const.inner) THEN Return(Get(const.inner))
  ELSE IF const.tag = "fval" /\ IsDefined(const.inner) THEN Return(Get(const.inner))
  ELSE IF const.tag = "boolval" THEN Return(Get(const.inner))
  ELSE IF const.tag = "Null" THEN Return(JsNull)
  ELSE Throw(UnsupportedError(message))

\* The text of one ColumnRef field: the name of a String, '' for anything else.
fieldText(field) == IF field.node = "String" THEN field.sval ELSE <<>>

\* fields.map(...).join('.').split('.').pop()
returningColumnName(fields) ==
  pop(split(join([i \in 1..Len(fields) |-> fieldText(fields[i])], S(".")), "."))

ReturningMessage == S("RETURNING clause only supports simple column names")

RECURSIVE returningColumnsSkipping(_, _)
\* A loop over returningList that passes over what is no column reference.
returningColumnsSkipping(targets, returning) ==
  IF targets = <<>> THEN Return(returning)
  ELSE LET target == Head(targets)
       IN IF target.node = "ResTarget" /\ target.val.node = "ColumnRef"
          THEN LET columnName == returningColumnName(target.val.fields)
               IN returningColumnsSkipping(Tail(targets),
                    IF columnName # <<>> THEN Append(returning, columnName)
                    ELSE returning)
          ELSE returningColumnsSkipping(Tail(targets), returning)

RECURSIVE returningColumns(_, _)
\* The loop over returningList: a column reference adds its name unless the name
\* is empty; any other target throws.
returningColumns(targets, returning) ==
  IF targets = <<>> THEN Return(returning)
  ELSE LET target == Head(targets)
       IN IF target.node = "ResTarget"
          THEN IF target.val.node = "ColumnRef"
               THEN LET columnName == returningColumnName(target.val.fields)
                    IN returningColumns(Tail(targets),
                         IF columnName # <<>> THEN Append(returning, columnName)
                         ELSE returning)
               ELSE Throw(UnsupportedError(ReturningMessage))
          ELSE Throw(UnsupportedError(ReturningMessage))

\* let returning: string[] | undefined, set when the statement has a list.
processReturning(returningList) ==
  IF IsDefined(returningList)
  THEN LET r == returningColumns(Get(returningList), <<>>)
       IN IF r.ok THEN Return(Some(r.value)) ELSE r
  ELSE Return(undefined)

\* ------------------------------------------ filter.ts: processWhereClause

\* The IR operator of an SQL comparison operator.
filterOperator(name) ==
  CASE name = "=" -> "eq"
    [] name = "<>" -> "neq"
    [] name = ">" -> "gt"
    [] name = ">=" -> "gte"
    [] name = "<" -> "lt"
    [] name = "<=" -> "lte"
    [] name = "~~" -> "like"
    [] name = "~~*" -> "ilike"

RECURSIVE processExpression(_), processExpressions(_, _)
\* A comparison of a column with a constant becomes a ColumnFilter, AND and OR
\* a LogicalFilter of the lowered arguments, and NOT sets the negate flag of
\* the filter of its argument; a right-hand side that is no constant throws.
processExpression(expr) ==
  IF expr.node = "A_Expr"
  THEN IF expr.rexpr.node = "A_Const"
       THEN Return(ColumnFilter(expr.column, filterOperator(expr.name), FALSE,
                                expr.rexpr.text))
       ELSE Throw(UnsupportedError(S("Right side of WHERE clause must be a constant")))
  ELSE IF expr.boolop = "NOT_EXPR"
       THEN LET r == processExpression(expr.args[1])
            IN IF r.ok THEN Return([r.value EXCEPT !.negate = TRUE]) ELSE r
       ELSE LET r == processExpressions(expr.args, <<>>)
            IN IF r.ok
               THEN Return(LogicalFilter(IF expr.boolop = "AND_EXPR" THEN "and" ELSE "or",
                                         FALSE, r.value))
               ELSE r

processExpressions(args, done) ==
  IF args = <<>> THEN Return(done)
  ELSE LET r == processExpression(Head(args))
       IN IF r.ok THEN processExpressions(Tail(args), Append(done, r.value)) ELSE r

processWhereClause(whereClause) == processExpression(whereClause)

\* ---------------------------------- update.ts, delete.ts: the basic operators

allowedOperators == {"eq", "neq", "gt", "gte", "lt", "lte"}

RECURSIVE acceptsEveryFilter(_)
\* A validator that never looks at the operator.
acceptsEveryFilter(f) ==
  IF f.type = "column" THEN TRUE
  ELSE IF f.type = "logical"
       THEN \A i \in 1..Len(f.values) : acceptsEveryFilter(f.values[i])
       ELSE TRUE

RECURSIVE validateBasicFilters(_)
\* TRUE when validateBasicFilters(filter) returns, FALSE when it throws: a
\* column filter must use an allowed operator and a logical filter is walked.
validateBasicFilters(f) ==
  IF f.type = "column" THEN f.operator \in allowedOperators
  ELSE IF f.type = "logical"
       THEN \A i \in 1..Len(f.values) : validateBasicFilters(f.values[i])
       ELSE TRUE

basicOperatorsError(statement) ==
  UnsupportedError(
    S(statement) \o S(" WHERE clause only supports basic operators: ")
      \o join(<<S("eq"), S("neq"), S("gt"), S("gte"), S("lt"), S("lte")>>, <<",", " ">>))

\* The WHERE clause of UPDATE and DELETE: lowered, then validated.
processBasicWhere(whereClause, statement) ==
  IF IsDefined(whereClause)
  THEN LET r == processWhereClause(Get(whereClause))
       IN IF r.ok
          THEN IF validateBasicFilters(r.value) THEN Return(Some(r.value))
               ELSE Throw(basicOperatorsError(statement))
          ELSE r
  ELSE Return(undefined)

\* --------------------------------------------------------------- insert.ts

RECURSIVE insertColumns(_, _)
\* The loop over cols: the name of a ResTarget that has one.
insertColumns(cols, columns) ==
  IF cols = <<>> THEN Return(columns)
  ELSE IF Head(cols).node = "ResTarget"
       THEN insertColumns(Tail(cols),
              IF IsDefined(Head(cols).name) /\ Get(Head(cols).name) # <<>>
              THEN Append(columns, Get(Head(cols).name))
              ELSE columns)
       ELSE Throw(UnsupportedError(
              S("INSERT column specification must be a simple column name")))

RECURSIVE insertRow(_, _)
\* The loop over the items of one VALUES list.
insertRow(items, rowValues) ==
  IF items = <<>> THEN Return(rowValues)
  ELSE IF Head(items).node = "A_Const"
       THEN LET r == constValue(Head(items).const,
                                S("Unsupported constant type in INSERT values"))
            IN IF r.ok THEN insertRow(Tail(items), Append(rowValues, r.value)) ELSE r
       ELSE Throw(UnsupportedError(
              S("INSERT values must be constants (no expressions or subqueries)")))

RECURSIVE insertRows(_, _)
\* The loop over valuesLists.
insertRows(valuesLists, values) ==
  IF valuesLists = <<>> THEN Return(values)
  ELSE LET r == insertRow(Head(valuesLists), <<>>)
       IN IF r.ok THEN insertRows(Tail(valuesLists), Append(values, r.value)) ELSE r

insertValues(selectStmt) ==
  IF IsDefined(selectStmt)
  THEN IF IsDefined(Get(selectStmt).valuesLists)
       THEN insertRows(Get(Get(selectStmt).valuesLists), <<>>)
       ELSE Throw(UnsupportedError(S("INSERT ... SELECT statements are not supported")))
  ELSE Return(<<>>)

processInsertStatement(insertStmt) ==
  IF ~IsDefined(insertStmt.relation)
  THEN Throw(UnsupportedError(S("INSERT statement must specify a table")))
  ELSE
  LET columns == IF IsDefined(insertStmt.cols) THEN insertColumns(Get(insertStmt.cols), <<>>)
                 ELSE Return(<<>>)
      values == insertValues(insertStmt.selectStmt)
      returning == processReturning(insertStmt.returningList)
  IN IF ~columns.ok THEN columns
     ELSE IF ~values.ok THEN values
     ELSE IF ~returning.ok THEN returning
     ELSE IF IsDefined(insertStmt.onConflictClause)
          THEN Throw(UnsupportedError(S("INSERT ... ON CONFLICT (upsert) is not supported")))
     ELSE Return(Insert(Get(insertStmt.relation).relname, columns.value, values.value,
                        returning.value))

\* --------------------------------------------------------------- update.ts

RECURSIVE updateSetSkippingExpressions(_, _)
\* A loop over targetList that leaves out an assignment of no constant.
updateSetSkippingExpressions(targetList, setClause) ==
  IF targetList = <<>> THEN Return(setClause)
  ELSE LET target == Head(targetList)
       IN IF target.node = "ResTarget"
          THEN IF ~IsDefined(target.name) \/ Get(target.name) = <<>>
               THEN Throw(UnsupportedError(S("UPDATE SET clause must specify column names")))
               ELSE IF target.val.node = "A_Const"
                    THEN LET r == constValue(target.val.const,
                                    S("Unsupported constant type in UPDATE SET clause"))
                         IN IF r.ok
                            THEN updateSetSkippingExpressions(Tail(targetList),
                                   objSet(setClause, Get(target.name), r.value))
                            ELSE r
                    ELSE updateSetSkippingExpressions(Tail(targetList), setClause)
          ELSE Throw(UnsupportedError(S("UPDATE SET clause must be simple column assignments")))

RECURSIVE updateSet(_, _)
\* The loop over targetList: setClause[columnName] = the constant.
updateSet(targetList, setClause) ==
  IF targetList = <<>> THEN Return(setClause)
  ELSE LET target == Head(targetList)
       IN IF target.node = "ResTarget"
          THEN IF ~IsDefined(target.name) \/ Get(target.name) = <<>>
               THEN Throw(UnsupportedError(S("UPDATE SET clause must specify column names")))
               ELSE IF target.val.node = "A_Const"
                    THEN LET r == constValue(target.val.const,
                                    S("Unsupported constant type in UPDATE SET clause"))
                         IN IF r.ok
                            THEN updateSet(Tail(targetList),
                                           objSet(setClause, Get(target.name), r.value))
                            ELSE r
                    ELSE Throw(UnsupportedError(S(
                      "UPDATE SET clause only supports constant values (no expressions or subqueries)")))
          ELSE Throw(UnsupportedError(S("UPDATE SET clause must be simple column assignments")))

processUpdateStatement(updateStmt) ==
  IF ~IsDefined(updateStmt.relation)
  THEN Throw(UnsupportedError(S("UPDATE statement must specify a table")))
  ELSE IF ~IsDefined(updateStmt.targetList)
  THEN Throw(UnsupportedError(S("UPDATE statement must have a SET clause")))
  ELSE
  LET setClause == updateSet(Get(updateStmt.targetList), EmptyFields)
      where == processBasicWhere(updateStmt.whereClause, "UPDATE")
      returning == processReturning(updateStmt.returningList)
  IN IF ~setClause.ok THEN setClause
     ELSE IF ~where.ok THEN where
     ELSE IF ~returning.ok THEN returning
     ELSE Return(Update(Get(updateStmt.relation).relname, JsObject(setClause.value),
                        where.value, returning.value))

\* --------------------------------------------------------------- delete.ts

processDeleteStatement(deleteStmt) ==
  IF ~IsDefined(deleteStmt.relation)
  THEN Throw(UnsupportedError(S("DELETE statement must specify a table")))
  ELSE
  LET where == processBasicWhere(deleteStmt.whereClause, "DELETE")
      returning == processReturning(deleteStmt.returningList)
  IN IF ~where.ok THEN where
     ELSE IF ~returning.ok THEN returning
     ELSE Return(Delete(Get(deleteStmt.relation).relname, where.value, returning.value))

\* --------------------------------------------------------------- select.ts

\* The part of the SELECT processor the dispatcher needs: the relation, the
\* targets as column targets and the lowered WHERE clause.
processSelectStatement(selectStmt) ==
  LET where == IF IsDefined(selectStmt.whereClause)
               THEN LET r == processWhereClause(Get(selectStmt.whereClause))
                    IN IF r.ok THEN Return(Some(r.value)) ELSE r
               ELSE Return(undefined)
  IN IF ~where.ok THEN where
     ELSE Return(Select(selectStmt.from,
                        [i \in 1..Len(selectStmt.targetList) |->
                           ColumnTarget(selectStmt.targetList[i], undefined, undefined)],
                        where.value, undefined, undefined))

\* ---------------------------------------------------------------- index.ts

\* stmtType.replace(/Stmt$/, '')
stripStmt(stmtType) ==
  IF Len(stmtType) > 0 /\ stmtType[Len(stmtType)] = "Stmt"
  THEN SubSeq(stmtType, 1, Len(stmtType) - 1)
  ELSE stmtType

\* A dispatcher without the case for EXPLAIN.
processStatementWithoutExplain(stmt) ==
  IF stmt.kind = <<"Select", "Stmt">> THEN processSelectStatement(stmt.node)
  ELSE IF stmt.kind = <<"Insert", "Stmt">> THEN processInsertStatement(stmt.node)
  ELSE IF stmt.kind = <<"Update", "Stmt">> THEN processUpdateStatement(stmt.node)
  ELSE IF stmt.kind = <<"Delete", "Stmt">> THEN processDeleteStatement(stmt.node)
  ELSE Throw(UnsupportedError(stripStmt(stmt.kind) \o S(" statements are not supported")))

processStatement(stmt) ==
  IF stmt.kind = <<"Select", "Stmt">> THEN processSelectStatement(stmt.node)
  ELSE IF stmt.kind = <<"Insert", "Stmt">> THEN processInsertStatement(stmt.node)
  ELSE IF stmt.kind = <<"Update", "Stmt">> THEN processUpdateStatement(stmt.node)
  ELSE IF stmt.kind = <<"Delete", "Stmt">> THEN processDeleteStatement(stmt.node)
  ELSE IF stmt.kind = <<"Explain", "Stmt">>
       THEN Throw(UnimplementedError(
              S("Explain statements are not yet implemented by the translator")))
  ELSE Throw(UnsupportedError(stripStmt(stmt.kind) \o S(" statements are not supported")))

\* The hint of a parser message.
getParsingErrorHint(message) ==
  IF message = S("syntax error at end of input")
  THEN Some(S("Did you leave out part of the statement?"))
  ELSE undefined

\* processSql on the outcome of parseQuery(sql): an error of the parser (it has
\* a cursorPosition) is rethrown as a ParsingError with the parser's
\* properties, anything else as it is.
processSql(result) ==
  IF ~result.ok
  THEN Throw([name |-> "ParsingError", message |-> result.error.message,
              hint |-> getParsingErrorHint(result.error.message),
              cursorPosition |-> result.error.cursorPosition])
  ELSE IF Len(result.stmts) = 0
  THEN Throw(UnsupportedError(S("Expected a statement, but received none")))
  ELSE IF Len(result.stmts) > 1
  THEN Throw(UnsupportedError(S("Expected a single statement, but received multiple")))
  ELSE processStatement(result.stmts[1])

\* ------------------------------------------------- libpg-query: parse trees

Stmt(kind, node) == [kind |-> <<kind, "Stmt">>, node |-> node]

RangeVar(relname) == [relname |-> relname]

\* A column of INSERT's column list.
ColumnName(name) == [node |-> "ResTarget", name |-> name]

\* A SET assignment, or a RETURNING target with its alias.
ResTarget(name, val) == [node |-> "ResTarget", name |-> name, val |-> val]

A_Const(tag, inner) == [node |-> "A_Const", const |-> [tag |-> tag, inner |-> inner]]

ColumnRef(fields) == [node |-> "ColumnRef", fields |-> fields]

String(sval) == [node |-> "String", sval |-> sval]

A_Star == [node |-> "A_Star"]

\* A node of a kind the processors have no case for (a function call, an
\* operator expression, a subquery).
OtherNode == [node |-> "FuncCall"]

A_Expr(name, column, rexpr) ==
  [node |-> "A_Expr", name |-> name, column |-> column, rexpr |-> rexpr]

BoolExpr(boolop, args) == [node |-> "BoolExpr", boolop |-> boolop, args |-> args]

WhereConst(text) == [node |-> "A_Const", text |-> text]

InsertStmt(relation, cols, selectStmt, returningList, onConflictClause) ==
  [relation |-> relation, cols |-> cols, selectStmt |-> selectStmt,
   returningList |-> returningList, onConflictClause |-> onConflictClause]

UpdateStmt(relation, targetList, whereClause, returningList) ==
  [relation |-> relation, targetList |-> targetList, whereClause |-> whereClause,
   returningList |-> returningList]

DeleteStmt(relation, whereClause, returningList) ==
  [relation |-> relation, whereClause |-> whereClause, returningList |-> returningList]

SelectStmt(from, targetList, whereClause) ==
  [from |-> from, targetList |-> targetList, whereClause |-> whereClause]

\* ------------------------------------------------------------ the machine

NoCall ==
  /\ stmts = <<>>
  /\ ir = undefined
  /\ err = undefined
  /\ req = undefined

\* The params a caller hands to the root routine: fresh, or holding the
\* `select` of a RETURNING list (formatUpdate, formatDelete).
RootCallerParams == {NewParams, <<Pair(S("select"), S("id"))>>}

InitRoot ==
  /\ pc = "root"
  /\ filter \in FilterTrees(LeafFilters, MaxFilterNodes)
  /\ params \in RootCallerParams
  /\ NoCall

\* One call of renderFilterRoot(params, filter).
RenderFilterRoot ==
  /\ pc = "root"
  /\ params' = renderFilterRoot(params, filter)
  /\ pc' = "rooted"
  /\ UNCHANGED <<stmts, ir, err, req, filter>>

NextRoot == RenderFilterRoot

SpecRoot == InitRoot /\ [][NextRoot]_vars

\* ------------------------------------------- the statements renderHttp is given

Star == ColumnTarget(S("*"), undefined, undefined)

RenderTargets ==
  {Star,
   ColumnTarget(S("*"), Some(S("all")), undefined),
   ColumnTarget(S("*"), undefined, Some(S("text"))),
   ColumnTarget(S("title"), undefined, undefined),
   AggregateTarget("count", S("*"), undefined)}

\* Column predicates of the rendered statements; one column is named `order`.
RenderLeaves ==
  {ColumnFilter(S("id"), "eq", FALSE, S("1")),
   ColumnFilter(S("order"), "gt", FALSE, S("2")),
   ColumnFilter(S("title"), "like", TRUE, <<"a", " ", "b">>)}

RenderFilters == Optional(FilterTrees(RenderLeaves, MaxRenderNodes))

FewFilters == {undefined, Some(ColumnFilter(S("id"), "eq", FALSE, S("1")))}

RenderSorts ==
  {undefined,
   Some(<<>>),
   Some(<<Sort(S("title"), undefined, undefined)>>),
   Some(<<Sort(S("title"), Some("desc"), Some("last")), Sort(S("id"), Some("asc"), undefined)>>)}

RenderLimits ==
  {undefined,
   Some(Limit(Some(10), undefined)),
   Some(Limit(undefined, Some(5))),
   Some(Limit(Some(0), Some(0)))}

\* Every target list with one filter, and every filter with two target lists.
RenderSelects ==
  {Select(S("books"), ts, f, so, li) :
     ts \in SeqsOf(RenderTargets, 1, MaxTargets), f \in FewFilters,
     so \in {undefined, Some(<<Sort(S("title"), undefined, undefined)>>)},
     li \in {undefined, Some(Limit(Some(0), Some(0)))}}
  \cup
  {Select(S("books"), ts, f, so, li) :
     ts \in {<<Star>>, <<ColumnTarget(S("title"), undefined, undefined)>>},
     f \in RenderFilters, so \in RenderSorts, li \in RenderLimits}

RenderReturning == Optional(SeqsOf({S("id"), S("year")}, 0, MaxReturning))

FewReturning == {undefined, Some(<<S("id")>>)}

\* A row of n items that alternates two atoms.
AlternatingRow(first, second, n) == [i \in 1..n |-> IF i % 2 = 1 THEN first ELSE second]

\* Rows of every length up to MaxColumns, so also rows of unequal length and
\* rows shorter or longer than the column list.
RenderRows ==
  {AlternatingRow(atoms[1], atoms[2], n) :
     atoms \in {<<JsNumber(1999), JsString(S("X"))>>, <<JsString(S("X")), JsNumber(1999)>>},
     n \in 0..MaxColumns}

\* Every column list with every list of rows, and every RETURNING list.
RenderInserts ==
  {Insert(S("books"), cs, vs, re) :
     cs \in SeqsOf({S("title"), S("year")}, 0, MaxColumns),
     vs \in SeqsOf(RenderRows, 0, MaxRows),
     re \in FewReturning}
  \cup
  {Insert(S("books"), <<S("title")>>, <<<<JsString(S("X"))>>>>, re) : re \in RenderReturning}

RenderSets ==
  {JsObject(EmptyFields),
   JsObject(objSet(EmptyFields, S("year"), JsNumber(2000))),
   JsObject(objSet(objSet(EmptyFields, S("year"), JsNumber(2000)), S("title"), JsNull))}

\* Every filter, and every RETURNING list.
RenderUpdates ==
  {Update(S("books"), set, f, re) :
     set \in RenderSets, f \in RenderFilters, re \in FewReturning}
  \cup
  {Update(S("books"), set, f, re) :
     set \in RenderSets, f \in FewFilters, re \in RenderReturning}

RenderDeletes ==
  {Delete(S("books"), f, re) : f \in RenderFilters, re \in FewReturning}
  \cup
  {Delete(S("books"), f, re) : f \in FewFilters, re \in RenderReturning}

RenderStatements == RenderSelects \cup RenderInserts \cup RenderUpdates \cup RenderDeletes

InitRender ==
  /\ pc = "processed"
  /\ ir \in {Some(st) : st \in RenderStatements}
  /\ stmts = <<>>
  /\ err = undefined
  /\ req = undefined
  /\ filter = undefined
  /\ params = NewParams

\* One call of renderHttp(processed) on the statement at hand.
RenderHttp ==
  /\ pc = "processed"
  /\ req' = Some(renderHttp(Get(ir)))
  /\ pc' = "rendered"
  /\ UNCHANGED <<stmts, ir, err, filter, params>>

NextRender == RenderHttp

SpecRender == InitRender /\ [][NextRender]_vars

\* --------------------------------------------- the parse trees processSql is given

\* WHERE comparisons: a basic operator, LIKE, and a comparison with a column.
WhereLeaves ==
  {A_Expr("=", S("id"), WhereConst(S("1"))),
   A_Expr("~~", S("title"), WhereConst(S("x"))),
   A_Expr("<", S("year"), ColumnRef(<<String(S("id"))>>))}

RECURSIVE WhereOfSize(_), WhereArgsOfSize(_)
\* The WHERE trees with exactly n nodes: AND and OR have two arguments or more,
\* NOT has one, which is no NOT itself.
WhereOfSize(n) ==
  IF n = 1 THEN WhereLeaves
  ELSE {BoolExpr("NOT_EXPR", <<arg>>) :
          arg \in {w \in WhereOfSize(n - 1) : w.node = "A_Expr" \/ w.boolop # "NOT_EXPR"}}
       \cup {BoolExpr(op, args) :
               op \in {"AND_EXPR", "OR_EXPR"},
               args \in {a \in WhereArgsOfSize(n - 1) : Len(a) >= 2}}

\* The non-empty argument lists with n nodes in total.
WhereArgsOfSize(n) ==
  UNION {{<<w>> \o rest : w \in WhereOfSize(k),
                          rest \in (IF k = n THEN {<<>>} ELSE WhereArgsOfSize(n - k))}
         : k \in 1..n}

WhereClauses == Optional(UNION {WhereOfSize(n) : n \in 1..MaxWhereNodes})

FewWhereClauses ==
  {undefined,
   Some(A_Expr("=", S("id"), WhereConst(S("1")))),
   Some(A_Expr("~~", S("title"), WhereConst(S("x"))))}

\* RETURNING targets: id, t.year, id AS ref, * and count(*).
ReturningTargets ==
  {ResTarget(undefined, ColumnRef(<<String(S("id"))>>)),
   ResTarget(undefined, ColumnRef(<<String(S("t")), String(S("year"))>>)),
   ResTarget(Some(S("ref")), ColumnRef(<<String(S("id"))>>)),
   ResTarget(undefined, ColumnRef(<<A_Star>>)),
   ResTarget(undefined, OtherNode)}

ReturningLists == Optional(SeqsOf(ReturningTargets, 1, MaxReturning))

FewReturningLists ==
  {undefined, Some(<<ResTarget(undefined, ColumnRef(<<String(S("id"))>>))>>)}

Books == Some(RangeVar(S("books")))

\* The constants of VALUES and SET: 'X', 1999, 0 (an ival without a value), 1.5,
\* true, NULL and a bit string.
Constants ==
  {A_Const("sval", Some(JsString(S("X")))),
   A_Const("ival", Some(JsNumber(1999))),
   A_Const("ival", undefined),
   A_Const("fval", Some(JsString(S("1.5")))),
   A_Const("boolval", Some(JsBoolean(TRUE))),
   A_Const("Null", undefined),
   A_Const("bsval", Some(JsString(S("b101"))))}

\* VALUES rows of every length up to MaxColumns, alternating 'X' and 1999.
ValuesRows ==
  {AlternatingRow(items[1], items[2], n) :
     items \in {<<A_Const("sval", Some(JsString(S("X")))), A_Const("ival", Some(JsNumber(1999)))>>,
                <<A_Const("ival", Some(JsNumber(1999))), A_Const("sval", Some(JsString(S("X"))))>>},
     n \in 1..MaxColumns}

ValuesLists == SeqsOf(ValuesRows, 1, MaxRows)

ColumnLists == Optional(SeqsOf({ColumnName(Some(S("title"))), ColumnName(Some(S("year")))},
                               1, MaxColumns))

\* INSERT: every column list with every VALUES clause; every constant; every
\* RETURNING list, with and without ON CONFLICT; DEFAULT VALUES, INSERT ...
\* SELECT and the malformed trees.
InsertStmts ==
  {InsertStmt(Books, cols, Some([valuesLists |-> Some(vl)]), re, undefined) :
     cols \in ColumnLists, vl \in ValuesLists, re \in FewReturningLists}
  \cup
  {InsertStmt(Books, Some(<<ColumnName(Some(S("title")))>>),
              Some([valuesLists |-> Some(<<<<item>>>>)]), undefined, undefined) :
     item \in Constants \cup {OtherNode}}
  \cup
  {InsertStmt(Books, Some(<<ColumnName(Some(S("title")))>>),
              Some([valuesLists |-> Some(<<<<A_Const("ival", Some(JsNumber(1999)))>>>>)]),
              re, oc) :
     re \in ReturningLists, oc \in {undefined, Some("DO NOTHING")}}
  \cup
  {InsertStmt(rel, cols, sel, undefined, undefined) :
     rel \in {undefined, Books},
     cols \in {undefined, Some(<<ColumnName(undefined)>>), Some(<<OtherNode>>)},
     sel \in {undefined, Some([valuesLists |-> undefined])}}

SetConstants ==
  {A_Const("ival", Some(JsNumber(2000))), A_Const("sval", Some(JsString(S("X"))))}

\* SET assignments: year = 2000, year = 'X', title = 2000, title = 'X' and
\* year = year + 1.
Assignments0 ==
  {ResTarget(Some(name), val) : name \in {S("year"), S("title")}, val \in SetConstants}
    \cup {ResTarget(Some(S("year")), OtherNode)}

TargetLists == Optional(SeqsOf(Assignments0, 1, MaxColumns))

FewTargetLists == {Some(<<ResTarget(Some(S("year")), A_Const("ival", Some(JsNumber(2000))))>>)}

\* UPDATE: every SET list; every WHERE clause; every RETURNING list; every
\* constant; the malformed trees.
UpdateStmts ==
  {UpdateStmt(Books, tl, wh, re) :
     tl \in TargetLists, wh \in FewWhereClauses, re \in FewReturningLists}
  \cup
  {UpdateStmt(Books, tl, wh, re) :
     tl \in FewTargetLists, wh \in WhereClauses, re \in FewReturningLists}
  \cup
  {UpdateStmt(Books, tl, wh, re) :
     tl \in FewTargetLists, wh \in FewWhereClauses, re \in ReturningLists}
  \cup
  {UpdateStmt(Books, Some(<<ResTarget(Some(S("year")), item)>>), undefined, undefined) :
     item \in Constants}
  \cup
  {UpdateStmt(rel, tl, undefined, undefined) :
     rel \in {undefined, Books},
     tl \in {undefined,
             Some(<<ResTarget(undefined, A_Const("ival", Some(JsNumber(2000))))>>),
             Some(<<OtherNode>>)}}

DeleteStmts ==
  {DeleteStmt(Books, wh, re) : wh \in WhereClauses, re \in FewReturningLists}
  \cup
  {DeleteStmt(Books, wh, re) : wh \in FewWhereClauses, re \in ReturningLists}
  \cup
  {DeleteStmt(undefined, undefined, undefined)}

SelectStmts ==
  {SelectStmt(S("books"), tl, wh) :
     tl \in {<<S("*")>>, <<S("title"), S("id")>>}, wh \in FewWhereClauses}

NoNode == [relation |-> undefined]

\* Statements the translator has no processor for.
OtherStmts == {Stmt(kind, NoNode) : kind \in {"Explain", "Create", "VariableSet"}}

Statements ==
  {Stmt("Select", n) : n \in SelectStmts} \cup {Stmt("Insert", n) : n \in InsertStmts}
    \cup {Stmt("Update", n) : n \in UpdateStmts} \cup {Stmt("Delete", n) : n \in DeleteStmts}
    \cup OtherStmts

\* One statement of each kind, for the texts that hold several.
FewStatements ==
  {Stmt("Select", SelectStmt(S("books"), <<S("*")>>, undefined)),
   Stmt("Insert", InsertStmt(undefined, undefined, undefined, undefined, undefined)),
   Stmt("Update", UpdateStmt(Books, Some(<<ResTarget(Some(S("year")),
                                            A_Const("ival", Some(JsNumber(2000))))>>),
                             undefined, undefined)),
   Stmt("Delete", DeleteStmt(Books, undefined, undefined)),
   Stmt("Explain", NoNode)}

\* What parseQuery(sql) gives: a list of statements, or the parser's error.
ParseResults ==
  {[ok |-> TRUE, stmts |-> <<st>>] : st \in Statements}
    \cup {[ok |-> TRUE, stmts |-> sts] : sts \in {<<>>} \cup SeqsOf(FewStatements, 2, MaxStmts)}
    \cup {[ok |-> FALSE, error |-> [message |-> m, cursorPosition |-> 7]] :
            m \in {S("syntax error at end of input"), S("syntax error at or near \"from\"")}}

Init ==
  /\ pc = "parsed"
  /\ stmts \in ParseResults
  /\ ir = undefined
  /\ err = undefined
  /\ req = undefined
  /\ filter = undefined
  /\ params = NewParams

\* processSql(sql), from the result of the parser on: the statement, or the
\* error thrown.
ProcessSql ==
  /\ pc = "parsed"
  /\ LET r == processSql(stmts)
     IN /\ ir' = IF r.ok THEN Some(r.value) ELSE undefined
        /\ err' = IF r.ok THEN undefined ELSE Some(r.error)
        /\ pc' = IF r.ok THEN "processed" ELSE "failed"
  /\ UNCHANGED <<stmts, req, filter, params>>

Next == ProcessSql \/ RenderHttp

Spec == Init /\ [][Next]_vars

\* =================================================================== claims

\* ------------------------------------------------------------------- C1

RECURSIVE AllPaths(_)
\* The paths (child indices from the root) of the nodes of a filter tree.
AllPaths(f) ==
  IF f.type = "column" THEN {<<>>}
  ELSE {<<>>} \cup UNION {{<<i>> \o p : p \in AllPaths(f.values[i])} : i \in 1..Len(f.values)}

RECURSIVE NodeAt(_, _)
NodeAt(f, p) == IF p = <<>> THEN f ELSE NodeAt(f.values[Head(p)], Tail(p))

IsPlainAnd(f) == f.type = "logical" /\ f.operator = "and" /\ f.negate = FALSE

\* The maximal non-flattenable nodes: not a plain `and`, below plain `and`s only.
MaximalPaths(f) ==
  {p \in AllPaths(f) :
     /\ ~IsPlainAnd(NodeAt(f, p))
     /\ \A k \in 0..(Len(p) - 1) : IsPlainAnd(NodeAt(f, SubSeq(p, 1, k)))}

\* p comes before q in a left-to-right depth-first walk (neither is a prefix).
Before(p, q) ==
  \E k \in 1..Len(p) :
    /\ k <= Len(q)
    /\ SubSeq(p, 1, k - 1) = SubSeq(q, 1, k - 1)
    /\ p[k] < q[k]

ExpectedRootPairs(f) ==
  [i \in 1..Cardinality(MaximalPaths(f)) |->
     LET p == CHOOSE q \in MaximalPaths(f) :
                Cardinality({r \in MaximalPaths(f) : Before(r, q)}) = i - 1
     IN Pair(renderFilter(NodeAt(f, p))[1], renderFilter(NodeAt(f, p))[2])]

\* C1: a call of the root routine appends to params exactly one pair for every
\* maximal non-flattenable node of the tree (a node that is not a non-negated
\* `and` and lies below non-negated `and`s only), in left-to-right depth-first
\* order, and leaves the pairs already there alone.
C1_RootFlattening ==
  [][(pc = "root" /\ pc' = "rooted") => params' = params \o ExpectedRootPairs(filter)]_vars

\* A nested non-negated `and` beside a sibling has been flattened.
C1_Witness ==
  /\ pc = "rooted"
  /\ IsPlainAnd(filter)
  /\ Len(filter.values) = 2
  /\ IsPlainAnd(filter.values[1])
  /\ filter.values[2].type = "column"
  /\ Len(params) = 2

\* ------------------------------------------------------------------- C2

\* The column predicates and their truth assignments.
Predicate(f) == <<f.column, f.operator, f.value>>

Assignments == [{Predicate(f) : f \in LeafFilters} -> BOOLEAN]

RECURSIVE Holds(_, _)
\* The truth value of a filter tree under an assignment.
Holds(f, asg) ==
  LET inner == IF f.type = "column" THEN asg[Predicate(f)]
               ELSE IF f.operator = "and"
                    THEN \A i \in 1..Len(f.values) : Holds(f.values[i], asg)
                    ELSE \E i \in 1..Len(f.values) : Holds(f.values[i], asg)
  IN IF f.negate THEN ~inner ELSE inner

\* C2: the conjunction of the filters the root routine emits as separate
\* parameters has the truth value of the whole tree under every assignment, and
\* a negated `and` or an `or` at the root is emitted as one parameter.
C2_RootEquivalence ==
  pc = "rooted" =>
    /\ \A asg \in Assignments :
         Holds(filter, asg)
           = (\A i \in 1..Len(rootFilters(filter)) : Holds(rootFilters(filter)[i], asg))
    /\ \E before \in RootCallerParams :
         /\ Len(params) = Len(before) + Len(rootFilters(filter))
         /\ (filter.type = "logical" /\ (filter.operator = "or" \/ filter.negate))
              => params = Append(before, Pair(renderFilter(filter)[1], renderFilter(filter)[2]))

\* A negated `and` of two children went out as a single parameter.
C2_Witness ==
  /\ pc = "rooted"
  /\ filter.type = "logical"
  /\ filter.operator = "and"
  /\ filter.negate
  /\ Len(filter.values) = 2
  /\ Len(params) = 1

\* ------------------------------------------------------------------- C4

Rendered(type) == pc = "rendered" /\ Get(ir).type = type

\* The object has a property for every column, holding the row's item at the
\* column's position.
MapsEveryColumn(obj, columns, row) ==
  /\ obj.js = "object"
  /\ \A i \in 1..Len(columns) :
       /\ columns[i] \in DOMAIN obj.fields
       /\ obj.fields[columns[i]] = arrayAt(row, i - 1)

\* The same, where a column named more than once holds the item at its last
\* position.
MapsLastColumn(obj, columns, row) ==
  /\ obj.js = "object"
  /\ DOMAIN obj.fields = Range(columns)
  /\ \A i \in 1..Len(columns) :
       (\A j \in (i + 1)..Len(columns) : columns[j] # columns[i])
         => obj.fields[columns[i]] = arrayAt(row, i - 1)

InsertBodyShape(Maps(_, _, _)) ==
  LET insert == Get(ir)
      body == Get(Get(req).body)
  IN /\ Get(req).method = "POST"
     /\ Len(insert.values) = 1 => Maps(body, insert.columns, insert.values[1])
     /\ Len(insert.values) > 1 =>
          /\ body.js = "array"
          /\ Len(body.items) = Len(insert.values)
          /\ \A r \in 1..Len(insert.values) :
               Maps(body.items[r], insert.columns, insert.values[r])

\* C4 as stated: an Insert renders as POST with an object for one row and an
\* array of objects in row order for several, each object mapping columns[i] to
\* row[i] for every i below columns.length.
C4_InsertBodyEveryColumn == Rendered("insert") => InsertBodyShape(MapsEveryColumn)

\* C4 as amended: the same, each object having exactly the names of `columns` as
\* properties and mapping columns[i] to row[i] for every i whose name does not
\* occur again later in `columns` (the last occurrence of a name wins).
C4_InsertBody == Rendered("insert") => InsertBodyShape(MapsLastColumn)

\* Two rows under two different columns went out as an array of two objects.
C4_Witness ==
  /\ Rendered("insert")
  /\ Get(ir).columns = <<S("title"), S("year")>>
  /\ Len(Get(ir).values) = 2
  /\ Len(Get(ir).values[2]) = 2
  /\ Get(Get(req).body).js = "array"

\* ------------------------------------------------------------------- C5

RelationOf(st) ==
  CASE st.type = "select" -> st.from
    [] st.type = "insert" -> st.into
    [] st.type = "update" -> st.table
    [] st.type = "delete" -> st.from

\* C5: every request renderHttp returns has path "/" + relation, a fullPath
\* that starts with path, equals path exactly when params is empty and is
\* path + "?" + the encoded params otherwise.
C5_FullPath ==
  pc = "rendered" =>
    LET r == Get(req)
    IN /\ r.path = S("/") \o RelationOf(Get(ir))
       /\ startsWith(r.fullPath, r.path)
       /\ (r.fullPath = r.path) <=> (Len(r.params) = 0)
       /\ Len(r.params) > 0 => r.fullPath = r.path \o S("?") \o uriEncodeParams(r.params)

\* A Delete with RETURNING and a filter has a query string; its path is bare.
C5_Witness ==
  /\ Rendered("delete")
  /\ Len(Get(req).params) = 2
  /\ Get(req).fullPath # Get(req).path
  /\ Get(req).path = <<"/", "books">>

\* ------------------------------------------------------------------ C10

HasParam(ps, key) == \E i \in 1..Len(ps) : ps[i].key = key

\* C10: a Select renders a `select` parameter exactly when its targets are not
\* the one column target `*` without alias and cast.
C10_SelectIffNotCanonical ==
  Rendered("select") =>
    (HasParam(Get(req).params, S("select")) <=> Get(ir).targets # <<Star>>)

\* ------------------------------------------------------------------- C3

\* processSql has run on a text holding exactly one statement of this kind.
Processed(kind) ==
  /\ pc # "parsed"
  /\ stmts.ok
  /\ Len(stmts.stmts) = 1
  /\ stmts.stmts[1].kind = <<kind, "Stmt">>

TheNode == stmts.stmts[1].node

Failed(name) == ir = undefined /\ IsDefined(err) /\ Get(err).name = name

BasicOperators == {"eq", "neq", "gt", "gte", "lt", "lte"}

\* Some column filter, at any depth, has an operator outside the basic set.
HasOtherOperator(f) ==
  \E p \in AllPaths(f) :
    NodeAt(f, p).type = "column" /\ NodeAt(f, p).operator \notin BasicOperators

WithoutWhere(kind) == Stmt(kind, [TheNode EXCEPT !.whereClause = undefined])

BasicFiltersOnly(kind) ==
  (Processed(kind) /\ IsDefined(TheNode.relation) /\ IsDefined(TheNode.whereClause)
     /\ processWhereClause(Get(TheNode.whereClause)).ok)
  => LET lowered == processWhereClause(Get(TheNode.whereClause)).value
     IN IF HasOtherOperator(lowered)
        THEN Failed("UnsupportedError")
        ELSE IF processStatement(WithoutWhere(kind)).ok
             THEN IsDefined(ir) /\ Get(ir).filter = Some(lowered)
             ELSE Failed("UnsupportedError")

\* C3: UPDATE and DELETE fail with UnsupportedError when a column filter at any
\* depth of the lowered WHERE tree has an operator outside eq, neq, gt, gte, lt,
\* lte; a tree of basic column filters under any `and`/`or`, negated or not, is
\* kept as the filter of the IR whenever the rest of the statement is accepted.
C3_BasicFilters ==
  /\ BasicFiltersOnly("Update")
  /\ BasicFiltersOnly("Delete")
  /\ (IsDefined(ir) /\ Get(ir).type \in {"update", "delete"} /\ IsDefined(Get(ir).filter))
       => ~HasOtherOperator(Get(Get(ir).filter))

\* An UPDATE whose WHERE is a negated `or` of basic comparisons was accepted.
C3_Witness ==
  /\ Processed("Update")
  /\ IsDefined(ir)
  /\ IsDefined(Get(ir).filter)
  /\ Get(Get(ir).filter).type = "logical"
  /\ Get(Get(ir).filter).operator = "or"
  /\ Get(Get(ir).filter).negate

\* ------------------------------------------------------------------- C6

TypeOfKind(kind) ==
  CASE kind = <<"Select", "Stmt">> -> "select"
    [] kind = <<"Insert", "Stmt">> -> "insert"
    [] kind = <<"Update", "Stmt">> -> "update"
    [] kind = <<"Delete", "Stmt">> -> "delete"
    [] OTHER -> "none"

\* C6: processSql returns a statement only for exactly one SELECT, INSERT,
\* UPDATE or DELETE, tagged by that kind; no statement and several statements
\* fail with their own UnsupportedError, EXPLAIN fails with UnimplementedError
\* and any other kind with UnsupportedError("<kind> statements are not
\* supported").
C6_Dispatch ==
  pc # "parsed" =>
    /\ IsDefined(ir) =>
         /\ stmts.ok
         /\ Len(stmts.stmts) = 1
         /\ Get(ir).type = TypeOfKind(stmts.stmts[1].kind)
    /\ (stmts.ok /\ Len(stmts.stmts) = 0) =>
         /\ ir = undefined
         /\ err = Some([name |-> "UnsupportedError",
                        message |-> <<"Expected a statement, but received none">>])
    /\ (stmts.ok /\ Len(stmts.stmts) > 1) =>
         /\ ir = undefined
         /\ err = Some([name |-> "UnsupportedError",
                        message |-> <<"Expected a single statement, but received multiple">>])
    /\ (stmts.ok /\ Len(stmts.stmts) = 1 /\ TypeOfKind(stmts.stmts[1].kind) = "none") =>
         IF stmts.stmts[1].kind = <<"Explain", "Stmt">>
         THEN Failed("UnimplementedError")
         ELSE /\ ir = undefined
              /\ err = Some([name |-> "UnsupportedError",
                             message |-> <<stmts.stmts[1].kind[1],
                                           " statements are not supported">>])

\* An EXPLAIN was refused as not implemented.
C6_Witness == Processed("Explain") /\ Failed("UnimplementedError")

\* ------------------------------------------------------------------- C7

\* C7: the rows of every Insert IR have one length, which is the length of
\* `columns` when columns are given.
C7_UniformRows ==
  (Processed("Insert") /\ IsDefined(ir)) =>
    LET insert == Get(ir)
    IN /\ \A i, j \in 1..Len(insert.values) :
            Len(insert.values[i]) = Len(insert.values[j])
       /\ Len(insert.columns) > 0 =>
            \A i \in 1..Len(insert.values) : Len(insert.values[i]) = Len(insert.columns)

\* ------------------------------------------------------------------- C8

\* The names the SET list assigns to.
AssignedNames(targetList) == {Get(targetList[i].name) : i \in 1..Len(targetList)}

LastAssignment(targetList, name) ==
  CHOOSE i \in 1..Len(targetList) :
    /\ Get(targetList[i].name) = name
    /\ \A j \in (i + 1)..Len(targetList) : Get(targetList[j].name) # name

\* The constant an assignment carries.
AssignedValue(target) ==
  IF target.val.const.tag = "Null" THEN JsNull ELSE Get(target.val.const.inner)

UpdateFailsUnsupported == (Processed("Update") /\ ir = undefined) => Failed("UnsupportedError")

\* C8 as stated: an UPDATE fails with UnsupportedError or returns a non-empty
\* `set` with one entry per SET assignment.
C8_SetPerAssignment ==
  /\ UpdateFailsUnsupported
  /\ (Processed("Update") /\ IsDefined(ir)) =>
       /\ Cardinality(DOMAIN Get(ir).set.fields) >= 1
       /\ Cardinality(DOMAIN Get(ir).set.fields) = Len(Get(TheNode.targetList))

\* C8 as amended: an UPDATE fails with UnsupportedError or returns a non-empty
\* `set` with one entry per column the SET list assigns to, holding the constant
\* of the last assignment to that column.
C8_SetNonEmpty ==
  /\ UpdateFailsUnsupported
  /\ (Processed("Update") /\ IsDefined(ir)) =>
       LET set == Get(ir).set.fields
           targetList == Get(TheNode.targetList)
       IN /\ Cardinality(DOMAIN set) >= 1
          /\ DOMAIN set = AssignedNames(targetList)
          /\ \A name \in DOMAIN set :
               set[name] = AssignedValue(targetList[LastAssignment(targetList, name)])

\* An UPDATE assigning two columns was accepted with both in `set`.
C8_Witness ==
  /\ Processed("Update")
  /\ IsDefined(ir)
  /\ Len(Get(TheNode.targetList)) = 2
  /\ DOMAIN Get(ir).set.fields = {S("year"), S("title")}

\* ------------------------------------------------------------------- C9

HasReturning(kind) ==
  Processed(kind) /\ IsDefined(TheNode.relation) /\ IsDefined(TheNode.returningList)

\* A simple column reference: one name, no qualifier, no alias.
IsSimpleColumn(target) ==
  /\ target.node = "ResTarget"
  /\ target.name = undefined
  /\ target.val.node = "ColumnRef"
  /\ Len(target.val.fields) = 1
  /\ target.val.fields[1].node = "String"

IsColumnReference(target) == target.node = "ResTarget" /\ target.val.node = "ColumnRef"

Some_(list, P(_)) == \E i \in 1..Len(list) : P(list[i])

\* Qualified, aliased, or no column reference at all.
NotSimple(target) ==
  \/ ~IsColumnReference(target)
  \/ target.name # undefined
  \/ Len(target.val.fields) > 1

NoReference(target) == ~IsColumnReference(target)

WithoutReturning(kind) == Stmt(kind, [TheNode EXCEPT !.returningList = undefined])

FilterPairs(f) == IF IsDefined(f) THEN ExpectedRootPairs(Get(f)) ELSE <<>>

\* `select` (if any): no pair, or the one pair of the rendered targets.
SelectPairs(targets) == {<<>>, <<Pair(S("select"), renderTargets(targets))>>}

OrderPairs(sorts) ==
  IF IsDefined(sorts) /\ Get(sorts) # <<>>
  THEN <<Pair(S("order"),
              join([i \in 1..Len(Get(sorts)) |-> sortValue(Get(sorts)[i])], S(",")))>>
  ELSE <<>>

\* `limit` then `offset`, a count or an offset of 0 included.
LimitPairs(limit) ==
  IF IsDefined(limit)
  THEN (IF IsDefined(Get(limit).count)
        THEN <<Pair(S("limit"), numberToString(Get(Get(limit).count)))>> ELSE <<>>)
       \o (IF IsDefined(Get(limit).offset)
           THEN <<Pair(S("offset"), numberToString(Get(Get(limit).offset)))>> ELSE <<>>)
  ELSE <<>>

\* `select` of a RETURNING list that is not empty.
ReturningPairs(returning) ==
  IF IsDefined(returning) /\ Get(returning) # <<>>
  THEN <<Pair(S("select"), join(Get(returning), S(",")))>>
  ELSE <<>>

\* C11: the parameters of the returned request are, in this order: for a Select
\* `select` (if any), the filter parameters as the root routine emits them,
\* `order`, `limit`, `offset` (a count or an offset of 0 still emitted); for an
\* Update and a Delete `select` of a non-empty RETURNING list, then the filter
\* parameters; for an Insert only `select`.
C11_EmissionOrder ==
  /\ Rendered("select") =>
       \E sel \in SelectPairs(Get(ir).targets) :
         Get(req).params = sel \o FilterPairs(Get(ir).filter)
                             \o OrderPairs(Get(ir).sorts) \o LimitPairs(Get(ir).limit)
  /\ (Rendered("update") \/ Rendered("delete")) =>
       Get(req).params = ReturningPairs(Get(ir).returning) \o FilterPairs(Get(ir).filter)
  /\ Rendered("insert") => Get(req).params = ReturningPairs(Get(ir).returning)

\* ------------------------------------------------------------------ C12

\* The pair is one of the parameters.
IsParam(ps, pair) == \E i \in 1..Len(ps) : ps[i] = pair

\* C12: every pair the root routine appends for the statement's filter is among
\* the params of the request renderHttp returns, whatever the filtered columns
\* are named: `select`, `order`, `limit` and `offset` never remove or overwrite
\* a filter parameter.
C12_FilterPairsKept ==
  (Rendered("select") \/ Rendered("update") \/ Rendered("delete")) =>
    \A i \in 1..Len(FilterPairs(Get(ir).filter)) :
      IsParam(Get(req).params, FilterPairs(Get(ir).filter)[i])

\* ------------------------------------------------------------------ C13

\* The entry is the non-empty last name segment of the target's reference.
IsLastSegment(entry, target) ==
  /\ IsColumnReference(target)
  /\ target.val.fields # <<>>
  /\ target.val.fields[Len(target.val.fields)].node = "String"
  /\ entry = target.val.fields[Len(target.val.fields)].sval
  /\ entry # <<>>

\* C13: when INSERT, UPDATE or DELETE with a RETURNING list is processed, the
\* IR's `returning` has one entry per RETURNING target, in the same order, each
\* the non-empty last name segment of the target's column reference; no target
\* is dropped, and the rendered request has a `select` parameter.
C13_ReturningPerTarget ==
  \A kind \in {"Insert", "Update", "Delete"} :
    (HasReturning(kind) /\ IsDefined(ir)) =>
      LET list == Get(TheNode.returningList)
          returning == Get(ir).returning
      IN /\ IsDefined(returning)
         /\ Len(Get(returning)) = Len(list)
         /\ \A i \in 1..Len(list) : IsLastSegment(Get(returning)[i], list[i])
         /\ pc = "rendered" => HasParam(Get(req).params, S("select"))

====
